---- MODULE Spec2Model ----
(***************************************************************************)
(* Canvas file sync (src/canvassync.py): one course's remote catalog is    *)
(* reconciled onto a local directory tree (sync_local) and the tree is     *)
(* then pruned (onto_local).                                                *)
(*                                                                         *)
(* Strings are sequences of tokens (one token is one character, except     *)
(* for a few multi-character tokens named below).  Paths are strings with  *)
(* the "/" token as separator, exactly as os.path builds them.  The local  *)
(* file system is case-sensitive (on a case-insensitive one the branch at  *)
(* line 233 can never be taken).  Times are integers in ticks;             *)
(* TicksPerSec ticks make one second, the resolution of the remote         *)
(* modified_at strings.                                                     *)
(***************************************************************************)
EXTENDS Integers, Sequences, FiniteSets, TLC

\* ------------------------------------------------------------------ bounds
MaxRuns == 2
MaxEntries == 2
MaxPerPage == 2
TicksPerSec == 2

\* ------------------------------------------------------------- strings
Min(a, b) == IF a < b THEN a ELSE b

Last(s) == s[Len(s)]

IsPrefix(p, s) == Len(p) <= Len(s) /\ SubSeq(s, 1, Len(p)) = p

\* str.lower(), on the letters the model uses
LowerChar(c) == IF c = "A" THEN "a" ELSE IF c = "B" THEN "b" ELSE IF c = "X" THEN "x" ELSE c

Lower(s) == [i \in DOMAIN s |-> LowerChar(s[i])]

\* str.replace(old, new) for one-character old and new
Replace(s, old, new) == [i \in DOMAIN s |-> IF s[i] = old THEN new ELSE s[i]]

\* str.rfind(c): the last index of c, 0 for Python's -1
RFind(s, c) == IF \E i \in DOMAIN s : s[i] = c
               THEN CHOOSE i \in DOMAIN s : s[i] = c /\ \A j \in DOMAIN s : s[j] = c => j <= i
               ELSE 0

\* the number of characters of a token
CharLen(tok) == IF tok = "course files" THEN 12 ELSE 1

\* s[n:] for a slice that ends on a token boundary
RECURSIVE DropChars(_, _)
DropChars(s, n) == IF n <= 0 \/ s = <<>> THEN s
                   ELSE DropChars(Tail(s), n - CharLen(Head(s)))

\* n * '~'
RECURSIVE Repeat(_, _)
Repeat(c, n) == IF n <= 0 THEN <<>> ELSE <<c>> \o Repeat(c, n - 1)

\* ---------------------------------------------------------------- paths
\* os.path.join(a, b)
Join(a, b) == IF b # <<>> /\ Head(b) = "/" THEN b
              ELSE IF a = <<>> \/ Last(a) = "/" THEN a \o b
              ELSE a \o <<"/">> \o b

\* os.path.split(p): (head, tail) around the last "/"
Dirname(p) == LET i == RFind(p, "/") IN IF i = 0 THEN <<>> ELSE SubSeq(p, 1, i - 1)

Basename(p) == LET i == RFind(p, "/") IN SubSeq(p, i + 1, Len(p))

\* the path the kernel resolves: trailing separators dropped
RECURSIVE Norm(_)
Norm(p) == IF Len(p) > 1 /\ Last(p) = "/" THEN Norm(SubSeq(p, 1, Len(p) - 1)) ELSE p

\* os.path.normpath(root).split(os.path.sep): the components of a path
RECURSIVE Components(_)
Components(p) == IF p = <<>> THEN <<>>
                 ELSE LET i == RFind(p, "/")
                      IN IF i = 0 THEN <<p>>
                         ELSE Components(SubSeq(p, 1, i - 1)) \o <<SubSeq(p, i + 1, Len(p))>>

\* the directories makedirs(p) makes sure exist: p and its ancestors
Ancestry(p) == {SubSeq(p, 1, i) : i \in {j \in DOMAIN p : j = Len(p) \/ p[j + 1] = "/"}}

Under(d, p) == IsPrefix(d \o <<"/">>, p)

\* ------------------------------------------------------- pure functions
add_before_ext(file_name, end) ==
    LET pos == RFind(file_name, ".")
    IN IF pos = 0 THEN file_name \o end
       ELSE SubSeq(file_name, 1, pos - 1) \o end \o SubSeq(file_name, pos, Len(file_name))

\* datetime.strptime(modified_at, "%Y-%m-%dT%H:%M:%SZ").timestamp(): seconds to ticks
Strptime(sec) == sec * TicksPerSec

\* datetime.now(utc).strftime("%Y-%m-%dT%H:%M:%SZ"): the sub-second part is dropped
NowString(now) == now \div TicksPerSec

\* file_utc.astimezone(local_timezone).strftime(time_fmt)
TimeFmt(t) == <<ToString(t \div TicksPerSec)>>

\* self.course_dir: os.path.join(base_dir, cconfig["name"]), kept as one token
course_dir == <<"R">>

\* ------------------------------------------------------ remote catalogs
\* A file object of the API: display_name, url ('' when Canvas has no download
\* link), modified_at (whole seconds) and the bytes its url serves.
NetUrl == <<"https:", "f">>

FileKinds ==
    { [display_name |-> <<"a", ".", "x">>, url |-> NetUrl, modified_at |-> 1, bytes |-> <<"v1">>],
      [display_name |-> <<"A", ".", "x">>, url |-> NetUrl, modified_at |-> 2, bytes |-> <<"v2">>],
      [display_name |-> <<"a", ".", "x">>, url |-> <<>>,   modified_at |-> 2, bytes |-> <<>>],
      [display_name |-> <<"b", "/", "y">>, url |-> NetUrl, modified_at |-> 1, bytes |-> <<"v1">>] }

\* A module item of the API; a File item carries the file object its url serves.
ItemKinds ==
    { [type |-> "File", title |-> <<"a", ".", "x">>, indent |-> 1, html_url |-> <<"u">>,
       file |-> [display_name |-> <<"a", ".", "x">>, url |-> NetUrl, modified_at |-> 1, bytes |-> <<"v1">>]],
      [type |-> "SubHeader", title |-> <<"h">>, indent |-> 0, html_url |-> <<>>,
       file |-> [display_name |-> <<>>, url |-> <<>>, modified_at |-> 0, bytes |-> <<>>]],
      [type |-> "ExternalUrl", title |-> <<"l">>, indent |-> 1, html_url |-> <<"u">>,
       file |-> [display_name |-> <<>>, url |-> <<>>, modified_at |-> 0, bytes |-> <<>>]] }

\* folder objects: the root folder "course files" and folders below it
RootFolder == [id |-> 1, full_name |-> <<"course files">>]
FolderD == [id |-> 2, full_name |-> <<"course files", "/", "d">>]
FolderE == [id |-> 3, full_name |-> <<"course files", "/", "d", "/", "e">>]

FolderLists == { <<RootFolder>>, <<RootFolder, FolderD, FolderE>> }

\* module objects; a module's name may hold a separator
ModuleM == [id |-> 1, name |-> <<"m">>]
ModuleN == [id |-> 2, name |-> <<"m", "/", "n">>]

ModuleLists == { <<ModuleM>>, <<ModuleN>>, <<ModuleM, ModuleN>> }

\* the page sizes the server may use: one thing a page, or MaxPerPage
PageSizes == {1, MaxPerPage}

\* the sequences of at most n distinct elements of S
DistinctSeqs(S, n) ==
    UNION { { s \in [1..k -> S] : \A i, j \in 1..k : i # j => s[i] # s[j] } : k \in 0..Min(n, Cardinality(S)) }

FilesCatalogs ==
    { [type |-> "FILES", per_page |-> pp, folders |-> fl,
       files |-> [i \in DOMAIN fk |-> [folder_id |-> fl[Len(fl)].id] @@ fk[i]],
       modules |-> <<>>, items |-> <<>>] :
      pp \in PageSizes, fl \in FolderLists, fk \in DistinctSeqs(FileKinds, MaxEntries) }

ModulesCatalogs ==
    { [type |-> "MODULES", per_page |-> pp, folders |-> <<>>, files |-> <<>>,
       modules |-> ms,
       items |-> [i \in DOMAIN is |-> [position |-> i] @@ is[i]]] :
      pp \in PageSizes, ms \in ModuleLists,
      is \in DistinctSeqs(ItemKinds, MaxEntries) }

Catalogs == FilesCatalogs \cup ModulesCatalogs

\* ---------------------------------------------------------------- state
VARIABLES
    remote,       \* the catalog the API serves; it does not change
    disk,         \* local files: path -> [bytes, mtime]
    dirs,         \* local directories: a set of paths
    temps,        \* files in the system's temporary directory, oldest first
    clock,        \* the wall clock, in ticks
    run,          \* the number of the program run
    pc,           \* where the run is
    folder_dict,  \* Course.folder_dict
    file_set,     \* Course.file_set
    skipped, updated, downloaded, errors,   \* Course's counters
    stack,        \* the do_all_pages calls in progress, innermost first
    walk,         \* os.walk's stack of directories still to list
    cur,          \* history: the file entry _parse_file handled last
    hist          \* history: counts over the run and the previous run's result

vars == <<remote, disk, dirs, temps, clock, run, pc, folder_dict, file_set,
          skipped, updated, downloaded, errors, stack, walk, cur, hist>>

\* ----------------------------------------------------- local file system
isfile(p) == p \in DOMAIN disk

isdir(p) == Norm(p) \in dirs

\* os.listdir(d): the names in directory d
listdir(d) == { Basename(p) : p \in { q \in DOMAIN disk \cup dirs : Dirname(q) = Norm(d) /\ q # Norm(d) } }

dirnames(d) == { Basename(p) : p \in { q \in dirs : Dirname(q) = Norm(d) /\ q # Norm(d) } }

filenames(d) == { Basename(p) : p \in { q \in DOMAIN disk : Dirname(q) = Norm(d) } }

\* os.makedirs(p)
makedirs(D, p) == D \cup Ancestry(Norm(p))

\* a function without the keys in K
Without(f, K) == [k \in DOMAIN f \ K |-> f[k]]

\* a function with key k set to v
With(f, k, v) == [x \in DOMAIN f \cup {k} |-> IF x = k THEN v ELSE f[x]]

getfile_insensitive(path) ==
    { f \in listdir(Dirname(path)) : Lower(f) = Lower(Basename(path)) }

isfile_insensitive(path) == getfile_insensitive(path) # {}

\* A comparison that stops at the sizes and never reads the bytes
filecmp_size(f1, f2) == Len(f1.bytes) = Len(f2.bytes)

\* filecmp.cmp(f1, f2), shallow: equal (size, mtime) signatures are taken as
\* equal files, otherwise the bytes are compared
filecmp(f1, f2) ==
    IF Len(f1.bytes) = Len(f2.bytes) /\ f1.mtime = f2.mtime THEN TRUE
    ELSE f1.bytes = f2.bytes

\* ----------------------------------------------------------- initial state
NoFile == [display_name |-> <<>>, url |-> <<>>, modified_at |-> 0, bytes |-> <<>>, folder_id |-> 0]

\* cur: the entry (file), the path it resolved to, the branch of _parse_file taken,
\* the counter incremented, what download did (got) and the bytes it left at its
\* destination (fetched), the state when _parse_file was called (disk0, set0,
\* counts0 = <<skipped, updated, downloaded, errors>>, temps0), and whether
\* _parse_file returned in the last step (ended)
NoCur == [file |-> NoFile, path |-> <<>>, branch |-> "none", outcome |-> "none",
          got |-> "none", fetched |-> <<>>, disk0 |-> <<>>, set0 |-> {},
          counts0 |-> <<0, 0, 0, 0>>, temps0 |-> 0, ended |-> FALSE]

NoHist == [handled |-> 0, fetches |-> 0, pruned |-> FALSE, failed |-> FALSE,
           prev |-> [done |-> FALSE, errors |-> 0, disk |-> <<>>, set |-> {}]]

\* the directory the catalog's first container maps to
TargetDir(cat) ==
    IF cat.type = "FILES"
    THEN Norm(Join(course_dir, DropChars(cat.folders[Len(cat.folders)].full_name, 13)))
    ELSE Join(course_dir, cat.modules[1].name)

\* the plain local name of the catalog's first file entry
TargetName(cat) ==
    IF cat.type = "FILES"
    THEN IF cat.files = <<>> THEN <<"a", ".", "x">> ELSE Replace(cat.files[1].display_name, "/", "-")
    ELSE <<"1", "~", " ", "a", ".", "x">>

UpperChar(c) == IF c = "a" THEN "A" ELSE IF c = "A" THEN "a" ELSE IF c = "b" THEN "B" ELSE c

SwapCase(s) == [i \in DOMAIN s |-> UpperChar(s[i])]

OldMtime == Strptime(1) - 1
NewMtime == Strptime(2) + 1
ClockStart == Strptime(3)
MaxClock == Strptime(4) - 1

\* the local trees a first run may find: nothing at all, or a file at the target
\* (older or newer than the catalog's, or under a name in another case), with or
\* without files and directories that no catalog names
LocalTrees == { <<"none", FALSE>>, <<"old v1", TRUE>>, <<"old v2", FALSE>>,
                <<"new v1", FALSE>>, <<"case", TRUE>> }

TargetFiles(cat, t) ==
    LET p == Join(TargetDir(cat), TargetName(cat))
        q == Join(TargetDir(cat), SwapCase(TargetName(cat)))
    IN CASE t = "none"   -> <<>>
         [] t = "old v1" -> With(<<>>, p, [bytes |-> <<"v1">>, mtime |-> OldMtime])
         [] t = "old v2" -> With(<<>>, p, [bytes |-> <<"v2">>, mtime |-> OldMtime])
         [] t = "new v1" -> With(<<>>, p, [bytes |-> <<"v1">>, mtime |-> NewMtime])
         [] t = "case"   -> With(<<>>, q, [bytes |-> <<"v1">>, mtime |-> NewMtime])

\* files and directories no catalog names, some inside '.old' directories
StaleFiles(cat) ==
    LET f == [bytes |-> <<"s">>, mtime |-> OldMtime]
    IN [p \in { <<"R", "/", "s">>, <<"R", "/", "z", "/", "k">>,
                <<"R", "/", "z", "/", ".old", "/", "k">>,
                Join(TargetDir(cat), <<".old", "/", "k">>) } |-> f]

StaleDirs(cat) == { <<"R", "/", "z">>, <<"R", "/", "z", "/", ".old">>, Join(TargetDir(cat), <<".old">>) }
                    \cup Ancestry(TargetDir(cat))

Init ==
    /\ remote \in Catalogs
    /\ \E tree \in LocalTrees :
          /\ disk = (IF tree[2] THEN StaleFiles(remote) ELSE <<>>) @@ TargetFiles(remote, tree[1])
          /\ dirs = (IF tree[2] THEN StaleDirs(remote) ELSE {})
                       \cup (IF tree[1] = "none" THEN {} ELSE Ancestry(TargetDir(remote)))
    /\ temps = <<>>
    /\ clock = ClockStart
    /\ run = 1
    /\ pc = "main"
    /\ folder_dict = <<>>
    /\ file_set = {}
    /\ skipped = 0 /\ updated = 0 /\ downloaded = 0 /\ errors = 0
    /\ stack = <<>>
    /\ walk = <<>>
    /\ cur = NoCur
    /\ hist = NoHist

\* ------------------------------------------------------------ pagination
\* The listing a request url names, and the pages the server cuts it into.
Listing(kind) ==
    CASE kind = "folders" -> remote.folders
      [] kind = "files"   -> remote.files
      [] kind = "modules" -> remote.modules
      [] kind = "items"   -> remote.items

NumPages(l) == IF Len(l) = 0 THEN 1 ELSE (Len(l) + remote.per_page - 1) \div remote.per_page

\* response.json() of page i
PageItems(l, i) == SubSeq(l, (i - 1) * remote.per_page + 1, Min(i * remote.per_page, Len(l)))

\* A listing whose last page is never linked to
next_link_short(l, i) == IF i < NumPages(l) - 1 THEN i + 1 ELSE 0

\* response.links['next']['url'] of page i, 0 (the empty url) when it has none
next_link(l, i) == IF i < NumPages(l) THEN i + 1 ELSE 0

\* a call of do_all_pages: req_url is the number of the page to request
do_all_pages(kind, arg) == [kind |-> kind, arg |-> arg, req_url |-> 1, things |-> <<>>, handled |-> <<>>]

Top == Head(stack)

\* the for loop hands the next thing of the page to method_to_run
NextThing == Head(Top.things)

Handed == <<[Top EXCEPT !.things = Tail(@), !.handled = Append(@, NextThing)]>> \o Tail(stack)

\* the times a reading of the clock may give: time passes, a tick at most per reading
Ticks(from) == from..Min(from + 1, MaxClock)

\* ------------------------------------------------------------- download
Stat(p) == IF p \in DOMAIN disk THEN [exists |-> TRUE, bytes |-> disk[p].bytes, mtime |-> disk[p].mtime]
           ELSE [exists |-> FALSE, bytes |-> <<>>, mtime |-> 0]

\* download(file, dest, request_headers): what becomes of dest, which holds old
download(file, old, status, now) ==
    IF file.url = <<>>
    THEN [res |-> "noop", bytes |-> old.bytes, mtime |-> old.mtime, fetch |-> FALSE]
    ELSE IF Head(file.url) = "URL:"
    THEN [res |-> "written", bytes |-> <<"[InternetShortcut]", "URL=">> \o Tail(file.url),
          mtime |-> now, fetch |-> FALSE]
    ELSE IF Head(file.url) = "SubHeader:"
    THEN [res |-> "written", bytes |-> old.bytes, mtime |-> now, fetch |-> FALSE]
    ELSE IF status = 200
    THEN [res |-> "written", bytes |-> file.bytes, mtime |-> Strptime(file.modified_at), fetch |-> TRUE]
    ELSE [res |-> "raise", bytes |-> old.bytes, mtime |-> old.mtime, fetch |-> TRUE]

Statuses == {200, 404}

\* ---------------------------------------------------------- _parse_file
Entry(file, path, branch, outcome, d, ended) ==
    [file |-> file, path |-> path, branch |-> branch, outcome |-> outcome,
     got |-> d.res, fetched |-> d.bytes,
     disk0 |-> disk, set0 |-> file_set, counts0 |-> <<skipped, updated, downloaded, errors>>,
     temps0 |-> Len(temps), ended |-> ended]

\* any step that is not the return of _parse_file
Idle == [cur EXCEPT !.ended = FALSE]

Counted(fetch) == [hist EXCEPT !.handled = @ + 1, !.fetches = @ + (IF fetch THEN 1 ELSE 0)]

\* A download branch that counts and records the entry before it knows
\* whether the fetch succeeded
DownloadTo_early(file, path, branch, status, now) ==
    LET d == download(file, Stat(path), status, now)
    IN /\ hist' = Counted(d.fetch)
       /\ temps' = temps
       /\ pc' = pc
       /\ downloaded' = downloaded + 1
       /\ file_set' = file_set \cup {path}
       /\ disk' = IF d.res = "written"
                  THEN With(disk, path, [bytes |-> d.bytes, mtime |-> d.mtime])
                  ELSE disk
       /\ errors' = IF d.res = "raise" THEN errors + 1 ELSE errors
       /\ cur' = Entry(file, path, branch,
                       IF d.res = "raise" THEN "errors" ELSE "downloaded", d, TRUE)
       /\ UNCHANGED <<skipped, updated>>

\* lines 239-245 and 274-280: download straight to the path
DownloadTo(file, path, branch, status, now) ==
    LET d == download(file, Stat(path), status, now)
    IN /\ hist' = Counted(d.fetch)
       /\ temps' = temps
       /\ pc' = pc
       /\ IF d.res = "raise"
          THEN /\ errors' = errors + 1
               /\ cur' = Entry(file, path, branch, "errors", d, TRUE)
               /\ UNCHANGED <<disk, downloaded, skipped, updated, file_set>>
          ELSE /\ disk' = IF d.res = "written"
                          THEN With(disk, path, [bytes |-> d.bytes, mtime |-> d.mtime])
                          ELSE disk
               /\ downloaded' = downloaded + 1
               /\ file_set' = file_set \cup {path}
               /\ cur' = Entry(file, path, branch, "downloaded", d, TRUE)
               /\ UNCHANGED <<errors, skipped, updated>>

\* lines 247-270, up to and including os.remove(file_path)
LookForNewer(file, path, status, now) ==
    LET tf == [exists |-> TRUE, bytes |-> <<>>, mtime |-> now]
        d == download(file, tf, status, now)
        temp == [bytes |-> d.bytes, mtime |-> d.mtime]
    IN /\ hist' = Counted(d.fetch)
       /\ IF d.res = "raise"
          THEN /\ errors' = errors + 1
               /\ temps' = Append(temps, temp)
               /\ pc' = pc
               /\ cur' = Entry(file, path, "update", "errors", d, TRUE)
               /\ UNCHANGED <<disk, downloaded, skipped, updated, file_set>>
          ELSE IF ~filecmp(disk[path], temp)
          THEN /\ updated' = updated + 1
               /\ disk' = Without(disk, {path})
               /\ temps' = Append(temps, temp)
               /\ pc' = "replace"
               /\ cur' = Entry(file, path, "update", "updated", d, FALSE)
               /\ UNCHANGED <<errors, downloaded, skipped, file_set>>
          ELSE /\ skipped' = skipped + 1
               /\ temps' = temps
               /\ file_set' = file_set \cup {path}
               /\ pc' = pc
               /\ cur' = Entry(file, path, "update", "skipped", d, TRUE)
               /\ UNCHANGED <<disk, errors, downloaded, updated>>

\* An else branch that forgets to count the entry
AlreadyThere_uncounted(file, path) ==
    /\ hist' = Counted(FALSE)
    /\ file_set' = file_set \cup {path}
    /\ cur' = Entry(file, path, "skip", "skipped", [res |-> "none", bytes |-> <<>>], TRUE)
    /\ pc' = pc
    /\ UNCHANGED <<disk, temps, errors, downloaded, updated, skipped>>

\* lines 281-285
AlreadyThere(file, path) ==
    /\ hist' = Counted(FALSE)
    /\ skipped' = skipped + 1
    /\ file_set' = file_set \cup {path}
    /\ cur' = Entry(file, path, "skip", "skipped", [res |-> "none", bytes |-> <<>>], TRUE)
    /\ pc' = pc
    /\ UNCHANGED <<disk, temps, errors, downloaded, updated>>

sanitize(display_name) == Replace(display_name, "/", "-")

\* A disambiguated name stamped with the time of the run instead of the
\* file's modified_at
case_name_now(file_name, file_utc) == add_before_ext(file_name, <<" c">> \o TimeFmt(clock))

\* the name line 235 gives a file whose name is taken in another case
case_name(file_name, file_utc) == add_before_ext(file_name, <<" c">> \o TimeFmt(file_utc))

\* A _parse_file that also looks for a newer version of a local file exactly
\* as old as modified_at
_parse_file_le(file, status, now) ==
    LET file_location == folder_dict[file.folder_id]
        file_name == sanitize(file.display_name)
        file_path == Join(file_location, file_name)
        file_utc == Strptime(file.modified_at)
    IN /\ clock' = now
       /\ IF ~isfile(file_path) /\ isfile_insensitive(file_path)
          THEN DownloadTo(file, Join(file_location, case_name(file_name, file_utc)), "case", status, now)
          ELSE IF isfile(file_path) /\ disk[file_path].mtime <= file_utc
          THEN LookForNewer(file, file_path, status, now)
          ELSE IF ~isfile(file_path) /\ file.url # <<>>
          THEN DownloadTo(file, file_path, "new", status, now)
          ELSE AlreadyThere(file, file_path)

\* Course._parse_file (lines 224-285): the branch it takes
_parse_file(file, status, now) ==
    LET file_location == folder_dict[file.folder_id]
        file_name == sanitize(file.display_name)
        file_path == Join(file_location, file_name)
        file_utc == Strptime(file.modified_at)
    IN /\ clock' = now
       /\ IF ~isfile(file_path) /\ isfile_insensitive(file_path)
          THEN DownloadTo(file, Join(file_location, case_name(file_name, file_utc)), "case", status, now)
          ELSE IF isfile(file_path) /\ disk[file_path].mtime < file_utc
          THEN LookForNewer(file, file_path, status, now)
          ELSE IF ~isfile(file_path) /\ file.url # <<>>
          THEN DownloadTo(file, file_path, "new", status, now)
          ELSE AlreadyThere(file, file_path)

\* ------------------------------------------------------------- actions
\* Course.__init__ (lines 105-132)
CourseInit ==
    /\ pc = "main"
    /\ \E status \in Statuses :
          IF status = 200
          THEN /\ folder_dict' = <<>>
               /\ file_set' = {}
               /\ skipped' = 0 /\ updated' = 0 /\ downloaded' = 0 /\ errors' = 0
               /\ dirs' = IF ~isdir(course_dir) THEN makedirs(dirs, course_dir) ELSE dirs
               /\ hist' = [hist EXCEPT !.handled = 0, !.fetches = 0, !.pruned = FALSE, !.failed = FALSE]
               /\ pc' = "sync_local"
          ELSE /\ pc' = "aborted"
               /\ hist' = [hist EXCEPT !.handled = 0, !.fetches = 0, !.pruned = FALSE, !.failed = TRUE]
               /\ UNCHANGED <<folder_dict, file_set, skipped, updated, downloaded, errors, dirs>>
    /\ cur' = Idle
    /\ UNCHANGED <<remote, disk, temps, clock, run, stack, walk>>

\* Course.sync_local (lines 134-144): its first do_all_pages call
SyncLocal ==
    /\ pc = "sync_local"
    /\ stack' = <<do_all_pages(IF remote.type = "MODULES" THEN "modules" ELSE "folders", 0)>>
    /\ pc' = "pages"
    /\ cur' = Idle
    /\ UNCHANGED <<remote, disk, dirs, temps, clock, run, folder_dict, file_set,
                   skipped, updated, downloaded, errors, walk, hist>>

\* A pager that takes a failed request for an empty last page
FetchPage_ignore ==
    /\ pc = "pages" /\ stack # <<>>
    /\ Top.things = <<>> /\ Top.req_url # 0
    /\ \E status \in Statuses :
          IF status = 200
          THEN /\ stack' = <<[Top EXCEPT !.req_url = next_link(Listing(Top.kind), Top.req_url),
                                         !.things = PageItems(Listing(Top.kind), Top.req_url)]>>
                           \o Tail(stack)
               /\ UNCHANGED hist
          ELSE /\ stack' = <<[Top EXCEPT !.req_url = 0]>> \o Tail(stack)
               /\ hist' = [hist EXCEPT !.failed = TRUE]
    /\ cur' = Idle
    /\ UNCHANGED <<remote, disk, dirs, temps, clock, run, pc, folder_dict, file_set,
                   skipped, updated, downloaded, errors, walk>>

\* do_all_pages (lines 70-77): request a page
FetchPage ==
    /\ pc = "pages" /\ stack # <<>>
    /\ Top.things = <<>> /\ Top.req_url # 0
    /\ \E status \in Statuses :
          IF status = 200
          THEN /\ stack' = <<[Top EXCEPT !.req_url = next_link(Listing(Top.kind), Top.req_url),
                                         !.things = PageItems(Listing(Top.kind), Top.req_url)]>>
                           \o Tail(stack)
               /\ UNCHANGED <<pc, hist>>
          ELSE /\ pc' = "aborted"
               /\ hist' = [hist EXCEPT !.failed = TRUE]
               /\ UNCHANGED stack
    /\ cur' = Idle
    /\ UNCHANGED <<remote, disk, dirs, temps, clock, run, folder_dict, file_set,
                   skipped, updated, downloaded, errors, walk>>

\* A sync_local that returns after the folders listing, before any file
DoAllPagesReturn_early ==
    /\ pc = "pages" /\ stack # <<>>
    /\ Top.things = <<>> /\ Top.req_url = 0
    /\ IF Top.kind = "items"
       THEN /\ stack' = Tail(stack)
            /\ UNCHANGED <<pc, walk>>
       ELSE /\ stack' = <<>>
            /\ pc' = "onto_local"
            /\ walk' = <<course_dir>>
    /\ cur' = Idle
    /\ UNCHANGED <<remote, disk, dirs, temps, clock, run, folder_dict, file_set,
                   skipped, updated, downloaded, errors, hist>>

\* do_all_pages returns (line 70: req_url is empty), to sync_local or to _parse_module
DoAllPagesReturn ==
    /\ pc = "pages" /\ stack # <<>>
    /\ Top.things = <<>> /\ Top.req_url = 0
    /\ IF Top.kind = "folders"
       THEN /\ stack' = <<do_all_pages("files", 0)>>
            /\ UNCHANGED <<pc, walk>>
       ELSE IF Top.kind = "items"
       THEN /\ stack' = Tail(stack)
            /\ UNCHANGED <<pc, walk>>
       ELSE /\ stack' = <<>>
            /\ pc' = "onto_local"
            /\ walk' = <<course_dir>>
    /\ cur' = Idle
    /\ UNCHANGED <<remote, disk, dirs, temps, clock, run, folder_dict, file_set,
                   skipped, updated, downloaded, errors, hist>>

\* Course._parse_folder (lines 213-222)
ParseFolder ==
    /\ pc = "pages" /\ stack # <<>>
    /\ Top.things # <<>> /\ Top.kind = "folders"
    /\ LET folder == NextThing
           folder_name == DropChars(folder.full_name, 13)
           folder_dir == Join(course_dir, folder_name)
       IN /\ folder_dict' = With(folder_dict, folder.id, folder_dir)
          /\ dirs' = IF ~isdir(folder_dir) THEN makedirs(dirs, folder_dir) ELSE dirs
    /\ stack' = Handed
    /\ cur' = Idle
    /\ UNCHANGED <<remote, disk, temps, clock, run, pc, file_set, skipped,
                   updated, downloaded, errors, walk, hist>>

\* Course._parse_file (lines 224-285), called by do_all_pages
ParseFile ==
    /\ pc = "pages" /\ stack # <<>>
    /\ Top.things # <<>> /\ Top.kind = "files"
    /\ \E status \in Statuses : _parse_file(NextThing, status, clock)
    /\ stack' = Handed
    /\ UNCHANGED <<remote, dirs, run, folder_dict, walk>>

\* A replacement made with shutil.copy, which leaves the copy the time of
\* the write
ReplaceCopy_copy ==
    /\ pc = "replace"
    /\ disk' = With(disk, cur.path, [bytes |-> Last(temps).bytes, mtime |-> clock])
    /\ temps' = SubSeq(temps, 1, Len(temps) - 1)
    /\ file_set' = file_set \cup {cur.path}
    /\ pc' = "pages"
    /\ cur' = [cur EXCEPT !.ended = TRUE]
    /\ UNCHANGED <<remote, dirs, clock, run, folder_dict, skipped, updated, downloaded,
                   errors, stack, walk, hist>>

\* lines 267-285: shutil.copy2, os.remove(temp_file_path), file_set.add
ReplaceCopy ==
    /\ pc = "replace"
    /\ disk' = With(disk, cur.path, Last(temps))
    /\ temps' = SubSeq(temps, 1, Len(temps) - 1)
    /\ file_set' = file_set \cup {cur.path}
    /\ pc' = "pages"
    /\ cur' = [cur EXCEPT !.ended = TRUE]
    /\ UNCHANGED <<remote, dirs, clock, run, folder_dict, skipped, updated, downloaded,
                   errors, stack, walk, hist>>

\* Course._parse_module (lines 182-192)
ParseModule ==
    /\ pc = "pages" /\ stack # <<>>
    /\ Top.things # <<>> /\ Top.kind = "modules"
    /\ LET module == NextThing
           folder_name == module.name
           folder_dir == Join(course_dir, folder_name)
       IN /\ folder_dict' = With(folder_dict, module.id, folder_dir)
          /\ dirs' = IF ~isdir(folder_dir) THEN makedirs(dirs, folder_dir) ELSE dirs
          /\ stack' = <<do_all_pages("items", module.id)>> \o Handed
    /\ cur' = Idle
    /\ UNCHANGED <<remote, disk, temps, clock, run, pc, file_set, skipped,
                   updated, downloaded, errors, walk, hist>>

\* the file object lines 195-210 hand to _parse_file
item_file(moduleitem, moduleid, now) ==
    LET file == IF moduleitem.type = "File" THEN moduleitem.file
                ELSE IF moduleitem.type = "SubHeader"
                THEN [url |-> <<"SubHeader:">> \o moduleitem.title,
                      display_name |-> moduleitem.title,
                      modified_at |-> NowString(now), bytes |-> <<>>]
                ELSE [url |-> <<"URL:">> \o moduleitem.html_url,
                      display_name |-> moduleitem.title \o <<".", "url">>,
                      modified_at |-> NowString(now), bytes |-> <<>>]
    IN [file EXCEPT !.display_name = <<ToString(moduleitem.position)>>
                                      \o Repeat("~", moduleitem.indent) \o <<" ">> \o @]
       @@ [folder_id |-> moduleid]

\* Course._parse_moduleitem (lines 194-211)
ParseModuleItem ==
    /\ pc = "pages" /\ stack # <<>>
    /\ Top.things # <<>> /\ Top.kind = "items"
    /\ IF NextThing.type = "File"
       THEN \E rstatus \in Statuses, status \in Statuses :
               IF rstatus # 200
               THEN /\ pc' = "aborted"
                    /\ hist' = [hist EXCEPT !.failed = TRUE]
                    /\ cur' = Idle
                    /\ UNCHANGED <<disk, temps, clock, file_set, skipped, updated, downloaded,
                                   errors, stack>>
               ELSE /\ _parse_file(item_file(NextThing, Top.arg, clock), status, clock)
                    /\ stack' = Handed
       ELSE \E now \in Ticks(clock) : \E written \in Ticks(now) :
               /\ _parse_file(item_file(NextThing, Top.arg, now), 200, written)
               /\ stack' = Handed
    /\ UNCHANGED <<remote, dirs, run, folder_dict, walk>>

\* ---------------------------------------------------------------- pruning
Range(f) == { f[k] : k \in DOMAIN f }

\* the orders in which os.scandir may list the set S
Orders(S) == { o \in [1..Cardinality(S) -> S] : Range(o) = S }

\* A walk that also skips a directory which merely holds a '.old' directory
InOld_holding(root) ==
    <<".old">> \in Range(Components(root)) \/ <<".old">> \in dirnames(root)

\* line 149: the listed directory lies in a '.old' directory
InOld(root) == <<".old">> \in Range(Components(root))

\* lines 151-157: files of root the catalog did not name
stale_files(root) == { Join(root, filename) : filename \in { f \in filenames(root) : Join(root, f) \notin file_set } }

\* lines 158-166: directories of root the catalog did not name
stale_dirs(root) ==
    { Join(root, dirname) : dirname \in { d \in dirnames(root) :
                                            d # <<".old">> /\ Join(root, d) \notin Range(folder_dict) } }

\* shutil.rmtree of every directory in D
rmtree_dirs(D) == { q \in dirs : \E d \in D : q = d \/ Under(d, q) }

rmtree_files(D) == { q \in DOMAIN disk : \E d \in D : Under(d, q) }

\* Course.onto_local (lines 146-166): os.walk lists one directory and the loop
\* body prunes it; the directories it listed are walked next
OntoLocalStep ==
    /\ pc = "onto_local" /\ walk # <<>>
    /\ LET root == Head(walk)
       IN IF ~isdir(root)
          THEN /\ walk' = Tail(walk)
               /\ UNCHANGED <<disk, dirs>>
          ELSE /\ \E o \in Orders({ Join(root, d) : d \in dirnames(root) }) : walk' = o \o Tail(walk)
               /\ IF InOld(root)
                  THEN UNCHANGED <<disk, dirs>>
                  ELSE /\ disk' = Without(disk, stale_files(root) \cup rmtree_files(stale_dirs(root)))
                       /\ dirs' = dirs \ rmtree_dirs(stale_dirs(root))
    /\ hist' = [hist EXCEPT !.pruned = TRUE]
    /\ cur' = Idle
    /\ UNCHANGED <<remote, temps, clock, run, pc, folder_dict, file_set,
                   skipped, updated, downloaded, errors, stack>>

\* onto_local returns and the run ends with the course's summary (lines 308-312)
OntoLocalReturn ==
    /\ pc = "onto_local" /\ walk = <<>>
    /\ pc' = "done"
    /\ hist' = [hist EXCEPT !.prev = [done |-> TRUE, errors |-> errors, disk |-> disk, set |-> file_set]]
    /\ cur' = Idle
    /\ UNCHANGED <<remote, disk, dirs, temps, clock, run, folder_dict, file_set,
                   skipped, updated, downloaded, errors, stack, walk>>

\* the program is run again on the same catalog
Rerun ==
    /\ pc = "done" /\ run < MaxRuns
    /\ run' = run + 1
    /\ pc' = "main"
    /\ cur' = Idle
    /\ UNCHANGED <<remote, disk, dirs, temps, clock, folder_dict, file_set,
                   skipped, updated, downloaded, errors, stack, walk, hist>>

Next ==
    \/ CourseInit
    \/ SyncLocal
    \/ FetchPage
    \/ DoAllPagesReturn
    \/ ParseFolder
    \/ ParseFile
    \/ ReplaceCopy
    \/ ParseModule
    \/ ParseModuleItem
    \/ OntoLocalStep
    \/ OntoLocalReturn
    \/ Rerun

Spec == Init /\ [][Next]_vars

\* ------------------------------------------------------------------ claims
\* the remote modified_at of the entry handled last, as a file time
cur_time == Strptime(cur.file.modified_at)

\* the url of the entry handled last is fetched over the network
cur_net == cur.file.url # <<>> /\ Head(cur.file.url) \notin {"URL:", "SubHeader:"}

\* a '.old' directory, or a path inside one
Excluded(p) == \E i \in DOMAIN Components(p) : Components(p)[i] = <<".old">>

\* C1: when a run has completed (sync_local, then onto_local), every local file
\* whose path is not in file_set and every local directory below the root
\* whose path is not a value of folder_dict is gone, unless it is a '.old'
\* directory or lies in one.
C1_DeletionComplete ==
    pc = "done" =>
        /\ \A p \in DOMAIN disk : p \in file_set \/ Excluded(p)
        /\ \A d \in dirs \ {course_dir} : d \in Range(folder_dict) \/ Excluded(d)

\* a completed first run that found stale files and directories, removed them,
\* kept a file of the catalog and kept what lies in a '.old' directory
C1_Witness ==
    /\ pc = "done" /\ run = 1
    /\ <<"R", "/", "s">> \in DOMAIN cur.disk0 /\ <<"R", "/", "s">> \notin DOMAIN disk
    /\ <<"R", "/", "z">> \notin dirs
    /\ \E p \in DOMAIN disk : Excluded(p)
    /\ \E p \in DOMAIN disk : p \in file_set

\* C2: no step of onto_local removes a local file whose path is in file_set
\* (so every expected file that exists when onto_local starts exists when it
\* finishes).
C2_ExpectedSurvive ==
    [][pc = "onto_local" => \A p \in file_set \cap DOMAIN disk : p \in DOMAIN disk']_vars

\* C3: in a run that follows a run completed without errors on the same
\* catalog, and that meets no failed download itself, nothing is downloaded
\* or updated and every file entry is skipped.
C3_Idempotent ==
    (run >= 2 /\ pc = "onto_local" /\ hist.prev.errors = 0 /\ errors = 0) =>
        downloaded = 0 /\ updated = 0 /\ skipped = hist.handled

\* C4: when _parse_file returns from the update path (the local file was older
\* than modified_at) after a successful download: equal bytes count as skipped
\* and leave the local file as it was; different bytes count as updated, once,
\* and the local file then holds the fetched bytes.
C4_ContentExactUpdate ==
    (cur.ended /\ cur.branch = "update" /\ cur.got = "written") =>
        IF cur.fetched = cur.disk0[cur.path].bytes
        THEN /\ <<skipped, updated, downloaded, errors>>
                  = <<cur.counts0[1] + 1, cur.counts0[2], cur.counts0[3], cur.counts0[4]>>
             /\ cur.path \in DOMAIN disk /\ disk[cur.path] = cur.disk0[cur.path]
        ELSE /\ <<skipped, updated, downloaded, errors>>
                  = <<cur.counts0[1], cur.counts0[2] + 1, cur.counts0[3], cur.counts0[4]>>
             /\ cur.path \in DOMAIN disk /\ disk[cur.path].bytes = cur.fetched

\* an update that replaced different bytes
C4_Witness ==
    /\ cur.ended /\ cur.branch = "update" /\ cur.got = "written" /\ cur_net
    /\ cur.disk0[cur.path].bytes # cur.fetched
    /\ disk[cur.path].bytes = cur.file.bytes

\* the things of the pages from page number url on
Remaining(l, url) == IF url = 0 THEN <<>> ELSE SubSeq(l, (url - 1) * remote.per_page + 1, Len(l))

\* C5: in every do_all_pages call the things handed to the handler so far,
\* then the rest of the current page, then the pages still to request, make up
\* the listing, in order: when the call returns every thing was handed over
\* exactly once, in the server's order.
C5_PaginationComplete ==
    \A i \in DOMAIN stack :
        stack[i].handled \o stack[i].things \o Remaining(Listing(stack[i].kind), stack[i].req_url)
            = Listing(stack[i].kind)

\* a call about to return after two pages, the first of two things
C5_Witness ==
    /\ pc = "pages" /\ stack # <<>>
    /\ Top.things = <<>> /\ Top.req_url = 0
    /\ remote.per_page = 2 /\ Len(Top.handled) = 3

\* C6: once a request of the catalog API has failed, the run is aborted: no
\* thing of the failed page was handed to the handler, and onto_local has not
\* run and does not run.
C6_FetchFailureFatal ==
    hist.failed =>
        /\ pc = "aborted"
        /\ ~hist.pruned /\ walk = <<>>
        /\ (stack # <<>> /\ Top.things = <<>> /\ Top.req_url # 0) =>
              \A k \in DOMAIN PageItems(Listing(Top.kind), Top.req_url) :
                  PageItems(Listing(Top.kind), Top.req_url)[k] \notin Range(Top.handled)

\* a run aborted by a failed request after a file entry was handled, with a
\* stale local file still in place
C6_Witness ==
    /\ hist.failed /\ pc = "aborted" /\ hist.handled >= 1
    /\ <<"R", "/", "s">> \in DOMAIN disk

\* C7: when _parse_file returns for an entry with an empty url, errors was
\* incremented, no other counter changed and file_set is as it was.
C7_UnavailableIsError ==
    (cur.ended /\ cur.file.url = <<>>) =>
        /\ <<skipped, updated, downloaded, errors>>
             = <<cur.counts0[1], cur.counts0[2], cur.counts0[3], cur.counts0[4] + 1>>
        /\ file_set = cur.set0

\* C8: when the download of an entry raised (a non-200 status), in whichever
\* branch, errors was incremented, no other counter changed, file_set is as it
\* was, and the run goes on with the next thing.
C8_DownloadFailureRecovered ==
    (cur.ended /\ cur.got = "raise") =>
        /\ <<skipped, updated, downloaded, errors>>
             = <<cur.counts0[1], cur.counts0[2], cur.counts0[3], cur.counts0[4] + 1>>
        /\ file_set = cur.set0
        /\ cur.outcome = "errors"
        /\ pc = "pages" /\ stack # <<>>

\* a failed download on the update path, with another entry still to handle
C8_Witness ==
    /\ cur.ended /\ cur.got = "raise" /\ cur.branch = "update"
    /\ pc = "pages" /\ Top.things # <<>>

\* name is plain with <<" c", seconds>> put before its last "." (at its end if it has none)
Disambiguated(name, plain, sec) ==
    \E i \in 0..Len(plain) :
        /\ name = SubSeq(plain, 1, i) \o <<" c", ToString(sec)>> \o SubSeq(plain, i + 1, Len(plain))
        /\ \A j \in (i + 2)..Len(plain) : plain[j] # "."
        /\ IF \E j \in DOMAIN plain : plain[j] = "." THEN plain[i + 1] = "." ELSE i = Len(plain)

\* the file objects of the catalog: <<local directory, local name, modified_at>>
CatalogFiles ==
    IF remote.type = "FILES"
    THEN { <<Norm(Join(course_dir, DropChars(remote.folders[j].full_name, 13))),
             Replace(remote.files[i].display_name, "/", "-"), remote.files[i].modified_at>> :
           <<i, j>> \in { x \in (DOMAIN remote.files) \X (DOMAIN remote.folders) :
                            remote.folders[x[2]].id = remote.files[x[1]].folder_id } }
    ELSE { <<Join(course_dir, remote.modules[j].name),
             <<ToString(remote.items[i].position)>> \o Repeat("~", remote.items[i].indent) \o <<" ">>
                 \o Replace(remote.items[i].file.display_name, "/", "-"),
             remote.items[i].file.modified_at>> :
           i \in { k \in DOMAIN remote.items : remote.items[k].type = "File" },
           j \in DOMAIN remote.modules }

\* C9: a file object whose name is taken on disk in another case only resolves,
\* in every run, to its folder's path for its name with " c" and the formatted
\* modified_at before the extension; and every file on disk with such a suffix
\* is that one path of a file object of the catalog, so no run adds a second
\* renamed copy.
C9_CaseCollisionDeterminism ==
    /\ (cur.ended /\ cur.branch = "case") =>
           /\ Dirname(cur.path) = Norm(folder_dict[cur.file.folder_id])
           /\ Disambiguated(Basename(cur.path), Replace(cur.file.display_name, "/", "-"),
                            cur.file.modified_at)
    /\ \A p \in DOMAIN disk :
           " c" \in Range(p) =>
               \E e \in CatalogFiles : Dirname(p) = e[1] /\ Disambiguated(Basename(p), e[2], e[3])

\* the second run resolves a colliding entry to the renamed copy of the first run
C9_Witness ==
    /\ run = 2 /\ cur.ended /\ cur.branch = "case" /\ cur.got = "written"
    /\ cur.path \in DOMAIN hist.prev.disk
    /\ Cardinality({ p \in DOMAIN disk : " c" \in Range(p) }) = 1

\* C10 as claimed: when _parse_file returns having written a local file, from
\* the network or as a stub, the file's modification time is modified_at.
C10_MtimeOfWritten ==
    (cur.ended /\ cur.got = "written" /\ cur.outcome \in {"downloaded", "updated"}) =>
        cur.path \in DOMAIN disk /\ disk[cur.path].mtime = cur_time

\* C10 as amended: a file written from a network download, the replacement on
\* the update path included, has modified_at as its modification time; a stub
\* of a 'URL:' or 'SubHeader:' entry has the time it was written, which is not
\* before modified_at.
C10_MtimeOfFetched ==
    (cur.ended /\ cur.got = "written" /\ cur.outcome \in {"downloaded", "updated"}) =>
        /\ cur.path \in DOMAIN disk
        /\ IF cur_net THEN disk[cur.path].mtime = cur_time
           ELSE disk[cur.path].mtime >= cur_time /\ disk[cur.path].mtime <= clock

\* a replacement written on the update path over an older local file
C10_Witness ==
    /\ cur.ended /\ cur.branch = "update" /\ cur.outcome = "updated" /\ cur_net
    /\ cur.disk0[cur.path].mtime < cur_time
    /\ disk[cur.path].mtime = cur_time

\* C11: once a run has completed without errors, a later run on the same
\* catalog requests the content of no entry.
C11_NoRefetch ==
    (run >= 2 /\ pc # "main" /\ hist.prev.done /\ hist.prev.errors = 0) => hist.fetches = 0

\* the number of file entries the catalog holds (every module lists the items)
EntryCount ==
    IF remote.type = "FILES" THEN Len(remote.files) ELSE Len(remote.modules) * Len(remote.items)

\* folder_dict and the local directories hold what the running listings need
Mapped ==
    /\ (stack # <<>> /\ Top.kind = "files") =>
           /\ \A i \in DOMAIN remote.folders :
                 /\ remote.folders[i].id \in DOMAIN folder_dict
                 /\ isdir(folder_dict[remote.folders[i].id])
           /\ \A k \in DOMAIN Top.things : Top.things[k].folder_id \in DOMAIN folder_dict
    /\ \A i \in DOMAIN stack :
           stack[i].kind = "items" =>
               /\ stack[i].arg \in DOMAIN folder_dict
               /\ isdir(folder_dict[stack[i].arg])

\* C12: (a) while the files listing runs every folder of the folders listing
\* is in folder_dict, and while the items of a module are listed the module's
\* id is in folder_dict and its directory exists; (b) onto_local starts when
\* every listing has returned and every file entry was handled, and no step of
\* it changes file_set or folder_dict.
C12_PhaseOrdering ==
    /\ [](Mapped /\ (pc = "onto_local" => stack = <<>> /\ hist.handled = EntryCount))
    /\ [][pc = "onto_local" => file_set' = file_set /\ folder_dict' = folder_dict]_vars

\* pruning under way after three folders, listed on three pages, and two files
C12_Witness ==
    /\ pc = "onto_local" /\ hist.pruned
    /\ remote.type = "FILES" /\ remote.per_page = 1
    /\ Cardinality(DOMAIN folder_dict) = 3 /\ hist.handled = 2 /\ file_set # {}

\* C13: when _parse_file returns from the update path, whatever the outcome,
\* the temporary file it made is gone; a completed run leaves none behind.
C13_NoScratchResidue ==
    /\ (cur.ended /\ cur.branch = "update") => Len(temps) = cur.temps0
    /\ pc = "done" => temps = <<>>

\* C14: no step of onto_local removes a '.old' directory, or a file or a
\* directory inside one.
C14_ExclusionZone ==
    [][pc = "onto_local" =>
          /\ \A p \in DOMAIN disk : Excluded(p) => p \in DOMAIN disk'
          /\ \A d \in dirs : Excluded(d) => d \in dirs']_vars

\* the path of the entry handled last under its exact name (line 229)
cur_file_path == Join(folder_dict[cur.file.folder_id], sanitize(cur.file.display_name))

\* C15: when _parse_file returns for an entry whose path held a local file not
\* older than modified_at, skipped was incremented and no other counter,
\* download was not called, the local files are as they were and the path is
\* in file_set.
C15_SkipWithoutFetch ==
    (cur.ended /\ cur_file_path \in DOMAIN cur.disk0
               /\ cur.disk0[cur_file_path].mtime >= cur_time) =>
        /\ <<skipped, updated, downloaded, errors>>
             = <<cur.counts0[1] + 1, cur.counts0[2], cur.counts0[3], cur.counts0[4]>>
        /\ cur.got = "none"
        /\ disk = cur.disk0 /\ Len(temps) = cur.temps0
        /\ file_set = cur.set0 \cup {cur_file_path}

\* a second run skips the file the first run downloaded: its modification
\* time is modified_at exactly
C15_Witness ==
    /\ run = 2 /\ cur.ended /\ cur.branch = "skip" /\ cur_net
    /\ cur.path \notin cur.set0
    /\ cur.disk0[cur.path].mtime = cur_time
    /\ skipped = cur.counts0[1] + 1

\* C16: from the moment the update path finds different content until
\* _parse_file returns, the path holds the old bytes or the new bytes.
C16_AtomicReplace ==
    ((pc = "replace" \/ cur.ended) /\ cur.branch = "update" /\ cur.outcome = "updated") =>
        /\ cur.path \in DOMAIN disk
        /\ disk[cur.path].bytes \in {cur.disk0[cur.path].bytes, cur.fetched}

\* C17: a _parse_file call that returned has incremented one counter by one
\* and left the other three; while a course is listed and pruned, and when
\* its run is done, its counters add up to the number of file entries
\* handled; and no step of a run decreases a counter.
C17_CounterConservation ==
    /\ [](/\ cur.ended =>
                \E k \in 1..4 :
                    <<skipped, updated, downloaded, errors>>
                        = [i \in 1..4 |-> cur.counts0[i] + (IF i = k THEN 1 ELSE 0)]
          /\ pc \in {"pages", "replace", "onto_local", "done"} =>
                skipped + updated + downloaded + errors = hist.handled)
    /\ [][pc # "main" => /\ skipped' >= skipped /\ updated' >= updated
                         /\ downloaded' >= downloaded /\ errors' >= errors]_vars

\* a run that has counted one entry of each kind of outcome but one
C17_Witness ==
    /\ cur.ended /\ hist.handled = 2
    /\ errors = 1 /\ skipped + updated = 1

\* C18: after a completed run, a local file that was there when the update
\* path's download of its entry failed is there still, with the bytes it had.
C18_PriorCopyKept ==
    (pc = "done" /\ cur.branch = "update" /\ cur.got = "raise") =>
        /\ cur.path \in DOMAIN disk
        /\ disk[cur.path].bytes = cur.disk0[cur.path].bytes

\* C19: from the call of _parse_file for an entry with an empty url until its
\* return, the local files are as they were before the call.
C19_UnavailableUntouched ==
    ((pc = "replace" \/ cur.ended) /\ cur.file.url = <<>>) => disk = cur.disk0

====
